---- MODULE Spec2Model ----
(***************************************************************************)
(* Processing orchestration of the desktop overlay assistant:              *)
(*   ProcessingHelper (electron/ProcessingHelper.ts), the reset shortcut   *)
(*   (ShortcutsHelper), the provider-switch IPC handlers                   *)
(*   (electron/ipcHandlers.ts) and the LLMHelper provider facade.          *)
(* JavaScript runs one event loop: every action below is the synchronous   *)
(* run of a handler up to its next await, or the continuation of one       *)
(* awaited promise.                                                        *)
(***************************************************************************)
EXTENDS Integers, Sequences, FiniteSets, TLC

\* ------------------------------------------------------------------ bounds
MaxCalls == 3       \* processScreenshots() invocations explored
MaxQueue == 1       \* capture items kept per queue
MaxAdapters == 2    \* LLMHelper objects constructed
MaxInits == 2       \* initializeOllamaModel() invocations pending on one object
MaxTests == 1       \* testConnection() invocations pending on one object
MaxLists == 1       \* getOllamaModels() invocations pending on one object
MaxItems == 2       \* items of a primary queue that was filled before processing

\* ------------------------------------------------------------------ data
\* File paths are sequences of characters, so that endsWith is computed.
ImgPng == <<"a", ".", "p", "n", "g">>
ClipWav == <<"c", ".", "w", "a", "v">>
Paths == {ImgPng, ClipWav}
\* further paths, for the choice of the pipeline
ClipMp3 == <<"s", ".", "m", "p", "3">>
WavPng == <<"w", "a", "v", ".", "p", "n", "g">>     \* an image named wav.png
NoDotMp3 == <<"x", "m", "p", "3">>                  \* no extension
SelectPaths == Paths \cup {ClipMp3, WavPng, NoDotMp3}

Texts == {"t1", "t2"}          \* texts a backend may answer with
ApiKeys == {"k1"}               \* cloud credentials
NoModel == "null"               \* LLMHelper.model === null
ModelNames == {"m1", "m2"}      \* local model names a user may configure
Urls == {"u2"}                  \* non-default local server urls
DefaultUrl == "http://localhost:11434"
DefaultCtorModel == "gemma:latest"
Undefined == "undefined"        \* an optional argument that was not passed

NoPayload == [shape |-> "none"]
NoInfo == [shape |-> "null"]    \* AppState.problemInfo === null
Message(m) == [shape |-> "message", message |-> m]

VARIABLES
  view,                                  \* AppState.view
  screenshotQueue,                       \* ScreenshotHelper.screenshotQueue
  extraScreenshotQueue,                  \* ScreenshotHelper.extraScreenshotQueue
  problemInfo,                           \* AppState.problemInfo
  hasDebugged,                           \* AppState.hasDebugged
  currentProcessingAbortController,      \* 0 = null, else the invocation that created it
  currentExtraProcessingAbortController, \* 0 = null, else the invocation that created it
  llmHelper,                             \* ProcessingHelper.llmHelper (object id)
  adapters,                              \* heap of LLMHelper objects
  calls,                                 \* processScreenshots() invocations, by call number
  returned,                              \* the invocation that returned in the last step
  lastRequest,                           \* the last request made outside processScreenshots()
  lastSwitch,                            \* result of the last provider-switch command
  lastTest,                              \* result of the last testConnection() that returned
  lastReply                              \* what the last renderer command that returned answered

vars == <<view, screenshotQueue, extraScreenshotQueue, problemInfo, hasDebugged,
          currentProcessingAbortController, currentExtraProcessingAbortController,
          llmHelper, adapters, calls, returned, lastRequest, lastSwitch, lastTest, lastReply>>

appVars == <<view, screenshotQueue, extraScreenshotQueue, problemInfo, hasDebugged>>
tokenVars == <<currentProcessingAbortController,
               currentExtraProcessingAbortController>>

\* ------------------------------------------------------------------ strings
\* String.prototype.endsWith
EndsWith(s, suf) ==
  /\ Len(suf) <= Len(s)
  /\ \A i \in 1..Len(suf) : s[Len(s) - Len(suf) + i] = suf[i]

\* (variant: only .wav files are taken for audio)
IsAudioPath_WavOnly(p) == EndsWith(p, <<".", "w", "a", "v">>)

\* lastPath.endsWith(".mp3") || lastPath.endsWith(".wav")
IsAudioPath(p) ==
  EndsWith(p, <<".", "m", "p", "3">>) \/ EndsWith(p, <<".", "w", "a", "v">>)

\* ------------------------------------------------------------------ LLMHelper
\* One LLMHelper object: its private fields, and the pending continuations of
\* initializeOllamaModel() running on it (an invocation's only local state that
\* is read after an await is its position). initRejected: a promise returned by
\* initializeOllamaModel() on this object has rejected.
Adapter(useOllama, ollamaModel, ollamaUrl, model, listing) ==
  [useOllama |-> useOllama, ollamaModel |-> ollamaModel, ollamaUrl |-> ollamaUrl,
   model |-> model, initList |-> listing, initProbe |-> 0, initFallback |-> 0,
   initRejected |-> FALSE,
   \* pending testConnection() invocations, by the request they await
   testTags |-> 0, testProbe |-> 0, testGemini |-> 0,
   \* pending getOllamaModels() invocations
   listTags |-> 0,
   \* the model the last switchToOllama(model) on the object named, Undefined
   \* when the object was not switched or the last switch named none
   chosen |-> Undefined]

\* (variant: the constructor accepts a missing key)
ConstructThrows_Never(apiKey, useOllama) == FALSE

\* new LLMHelper(apiKey, useOllama, ollamaModel, ollamaUrl) throws when neither
\* provider is configured.
ConstructThrows(apiKey, useOllama) == ~useOllama /\ apiKey = Undefined

\* The object the constructor leaves (when it does not throw); in Ollama mode
\* it has started initializeOllamaModel(), which awaits the model list.
Construct(apiKey, useOllama, ollamaModel, ollamaUrl) ==
  IF useOllama
    THEN Adapter(TRUE,
                 IF ollamaModel = Undefined THEN DefaultCtorModel ELSE ollamaModel,
                 IF ollamaUrl = Undefined THEN DefaultUrl ELSE ollamaUrl,
                 NoModel, 1)
    ELSE Adapter(FALSE, "llama3.2", DefaultUrl, apiKey, 0)

\* The facade operations and the backend each one sends its request to, given
\* the fields of the object: "none" when the operation throws before any
\* request leaves. (The operations that read a file first make the request
\* after the read; a request is recorded with the fields it is made with.)
ModelOps == {"analyzeAudioFile", "analyzeAudioFromBase64", "analyzeImageFile",
             "extractProblemFromImages", "generateSolution",
             "debugSolutionWithImages"}
FacadeOps == ModelOps \cup {"chatWithGemini", "testConnection"}
\* the operations that make exactly one request
DirectOps == FacadeOps \ {"testConnection"}

Backend(a, op) ==
  IF op = "callOllama" THEN "ollama"
  ELSE IF op \in ModelOps
    THEN IF a.model = NoModel THEN "none" ELSE "gemini"
    ELSE IF a.useOllama THEN "ollama"
         ELSE IF a.model # NoModel THEN "gemini" ELSE "none"

\* A request: the operation, the object it was called on, the backend it goes
\* to and the mode (useOllama) of the object when it is made.
Request(op, h) ==
  [op |-> op, helper |-> h, backend |-> Backend(adapters[h], op),
   useOllama |-> adapters[h].useOllama]
NoRequest == [op |-> "none", helper |-> 0, backend |-> "none", useOllama |-> FALSE]

\* ------------------------------------------------------------------ calls
Event(kind, payload) == [kind |-> kind, payload |-> payload]

\* (variant: the extracted text is dropped for the placeholder description)
ImageProblemInfo_Placeholder(text) ==
  [shape |-> "ProblemInfo", problem_statement |-> "Generated from screenshot",
   input_format |-> "Generated from screenshot",
   output_format |-> "Generated from screenshot",
   constraints |-> Undefined, test_cases |-> "[]",
   complexity |-> "N/A", validation_type |-> "manual", difficulty |-> "custom"]

\* problemInfo built by the image branch / by the audio branch
ImageProblemInfo(text) ==
  [shape |-> "ProblemInfo", problem_statement |-> text,
   input_format |-> "Generated from screenshot",
   output_format |-> "Generated from screenshot",
   constraints |-> Undefined, test_cases |-> "[]",
   complexity |-> "N/A", validation_type |-> "manual", difficulty |-> "custom"]

AudioProblemInfo(text) ==
  [shape |-> "ProblemInfo", problem_statement |-> text,
   input_format |-> "{}", output_format |-> "{}",
   constraints |-> "[]", test_cases |-> "[]",
   complexity |-> Undefined, validation_type |-> Undefined, difficulty |-> Undefined]

\* { text, timestamp } returned by analyzeAudioFile / analyzeImageFile
AnalysisResult(text) == [shape |-> "AnalysisResult", text |-> text]

NewCall(branch, pc, path, images, info, h, events, ops) ==
  [branch |-> branch, pc |-> pc, path |-> path, images |-> images, info |-> info,
   helper0 |-> h, helper |-> h, code |-> Undefined,
   events |-> events, ops |-> ops,
   result |-> NoPayload,     \* what its last awaited operation settled with
   aborted |-> FALSE,        \* signal.aborted of the AbortController it created
   \* the problem info passed to each operation of the debug pipeline
   sent |-> IF branch = "debug" /\ Len(ops) > 0 THEN <<info>> ELSE <<>>]

\* A returned invocation keeps no state (DoneCall).
DoneCall == NewCall("none", "done", <<>>, <<>>, NoInfo, 0, <<>>, <<>>)
NoCall == NewCall("none", "never", <<>>, <<>>, NoInfo, 0, <<>>, <<>>)

InFlight(c) == calls[c].pc # "done"
Channel(c) == IF calls[c].branch \in {"audio", "image"} THEN "primary"
              ELSE IF calls[c].branch = "debug" THEN "debug" ELSE "none"

\* What a renderer command answered: a value it returned or an error it threw
Reply(cmd, kind, value) == [cmd |-> cmd, kind |-> kind, value |-> value]
NoReply == Reply("none", "none", Undefined)

\* ------------------------------------------------------------------ Init
\* ProcessingHelper constructor: one LLMHelper, from the environment.
InitialAdapters ==
  { Construct(Undefined, TRUE, Undefined, Undefined) }
    \cup { Construct(k, FALSE, Undefined, Undefined) : k \in ApiKeys }

Init ==
  /\ view = "queue"
  /\ screenshotQueue = <<>>
  /\ extraScreenshotQueue = <<>>
  /\ problemInfo = NoInfo
  /\ hasDebugged = FALSE
  /\ currentProcessingAbortController = 0
  /\ currentExtraProcessingAbortController = 0
  /\ llmHelper = 1
  /\ \E a \in InitialAdapters : adapters = <<a>>
  /\ calls = <<>>
  /\ returned = NoCall
  /\ lastRequest = NoRequest
  /\ lastSwitch = [success |-> TRUE, error |-> Undefined]
  /\ lastTest = [success |-> TRUE, error |-> Undefined]
  /\ lastReply = NoReply

\* ------------------------------------------------------------------ capture queue
\* A capture lands in the queue of the current view: a screenshot or an audio
\* file in the primary queue, a screenshot in the debug queue (whose items are
\* all handled as images).
TakeScreenshot(p) ==
  /\ IF view = "queue"
       THEN /\ Len(screenshotQueue) < MaxQueue
            /\ screenshotQueue' = Append(screenshotQueue, p)
            /\ UNCHANGED extraScreenshotQueue
       ELSE /\ p = ImgPng
            /\ Len(extraScreenshotQueue) < MaxQueue
            /\ extraScreenshotQueue' = Append(extraScreenshotQueue, p)
            /\ UNCHANGED screenshotQueue
  /\ returned' = NoCall
  /\ UNCHANGED <<view, problemInfo, hasDebugged, tokenVars, llmHelper, adapters,
                 calls, lastRequest, lastSwitch, lastTest, lastReply>>

\* AppState.clearQueues(): both queues and the problem info.
ClearQueuesEffect ==
  /\ screenshotQueue' = <<>>
  /\ extraScreenshotQueue' = <<>>
  /\ problemInfo' = NoInfo

\* ------------------------------------------------------------------ processScreenshots
\* The invocation suspends at an await / returns.
\* What is kept of the invocation that has just returned: its events, its
\* requests, the adapter that was active when it started, and whether its
\* controller was aborted. Any later step resets `returned` to NoCall.
Kept(rec) == [rec EXCEPT !.path = <<>>, !.images = <<>>, !.info = NoInfo,
                         !.helper = 0, !.code = Undefined, !.sent = <<>>]
Suspend(rec) == calls' = Append(calls, rec) /\ returned' = NoCall
ReturnAtOnce(rec) == calls' = Append(calls, DoneCall) /\ returned' = Kept(rec)
Return(c, rec) == calls' = [calls EXCEPT ![c] = DoneCall] /\ returned' = Kept(rec)

\* (variant: the empty-queue check sits inside try/finally blocks that clear
\* the controllers)
NoScreenshots_ClearsTokens ==
  /\ ReturnAtOnce(NewCall("none", "done", <<>>, <<>>, NoInfo, llmHelper,
                          <<Event("NO_SCREENSHOTS", NoPayload)>>, <<>>))
  /\ currentProcessingAbortController' = 0
  /\ currentExtraProcessingAbortController' = 0
  /\ UNCHANGED appVars

\* The relevant queue is empty: notify and return.
NoScreenshots ==
  /\ ReturnAtOnce(NewCall("none", "done", <<>>, <<>>, NoInfo, llmHelper,
                          <<Event("NO_SCREENSHOTS", NoPayload)>>, <<>>))
  /\ UNCHANGED <<appVars, tokenVars>>

\* (variant: the problem info is tested before the try block, so that no
\* finally clears the controller just created)
DebugWithoutProblemInfo_KeepsToken ==
  /\ ReturnAtOnce(
        NewCall("debug", "done", <<>>, extraScreenshotQueue, NoInfo, llmHelper,
                <<Event("DEBUG_START", NoPayload),
                  Event("DEBUG_ERROR", Message("No problem info available"))>>,
                <<>>))
  /\ currentExtraProcessingAbortController' = Len(calls) + 1
  /\ UNCHANGED <<appVars, currentProcessingAbortController>>

\* Debug branch without problem info: the throw inside try is caught, the
\* error is published and finally clears the token; nothing is awaited.
DebugWithoutProblemInfo ==
  /\ ReturnAtOnce(
        NewCall("debug", "done", <<>>, extraScreenshotQueue, NoInfo, llmHelper,
                <<Event("DEBUG_START", NoPayload),
                  Event("DEBUG_ERROR", Message("No problem info available"))>>,
                <<>>))
  /\ currentExtraProcessingAbortController' = 0
  /\ UNCHANGED <<appVars, currentProcessingAbortController>>

\* (variant: the view is set only after the awaited adapter call)
StartCall_LateSetView(c) ==
  IF view = "queue"
    THEN IF Len(screenshotQueue) = 0
      THEN NoScreenshots
      ELSE LET lastPath == screenshotQueue[Len(screenshotQueue)] IN
           IF IsAudioPath(lastPath)
             THEN /\ Suspend(
                        NewCall("audio", "net", lastPath, <<>>, NoInfo, llmHelper,
                                <<Event("INITIAL_START", NoPayload)>>,
                                <<Request("analyzeAudioFile", llmHelper)>>))
                  /\ view' = view
                  /\ UNCHANGED <<screenshotQueue, extraScreenshotQueue, problemInfo,
                                 hasDebugged, tokenVars>>
             ELSE /\ Suspend(
                        NewCall("image", "net", lastPath, <<>>, NoInfo, llmHelper,
                                <<Event("INITIAL_START", NoPayload)>>,
                                <<Request("analyzeImageFile", llmHelper)>>))
                  /\ view' = view
                  /\ currentProcessingAbortController' = c
                  /\ UNCHANGED <<screenshotQueue, extraScreenshotQueue, problemInfo,
                                 hasDebugged, currentExtraProcessingAbortController>>
    ELSE IF Len(extraScreenshotQueue) = 0
      THEN NoScreenshots
      ELSE IF problemInfo = NoInfo
        THEN DebugWithoutProblemInfo
        ELSE \* generateSolution(problemInfo) makes its request at once
             /\ Suspend(
                   NewCall("debug", "generate", <<>>, extraScreenshotQueue,
                           problemInfo, llmHelper,
                           <<Event("DEBUG_START", NoPayload)>>,
                           <<Request("generateSolution", llmHelper)>>))
             /\ currentExtraProcessingAbortController' = c
             /\ UNCHANGED <<appVars, currentProcessingAbortController>>

\* The synchronous part of processScreenshots(), up to its first await (or to
\* its return when it awaits nothing). c is the number of the invocation.
StartCall(c) ==
  IF view = "queue"
    THEN IF Len(screenshotQueue) = 0
      THEN NoScreenshots
      ELSE LET lastPath == screenshotQueue[Len(screenshotQueue)] IN
           IF IsAudioPath(lastPath)
             THEN /\ Suspend(
                        NewCall("audio", "net", lastPath, <<>>, NoInfo, llmHelper,
                                <<Event("INITIAL_START", NoPayload)>>,
                                <<Request("analyzeAudioFile", llmHelper)>>))
                  /\ view' = "solutions"
                  /\ UNCHANGED <<screenshotQueue, extraScreenshotQueue, problemInfo,
                                 hasDebugged, tokenVars>>
             ELSE /\ Suspend(
                        NewCall("image", "net", lastPath, <<>>, NoInfo, llmHelper,
                                <<Event("INITIAL_START", NoPayload)>>,
                                <<Request("analyzeImageFile", llmHelper)>>))
                  /\ view' = "solutions"
                  /\ currentProcessingAbortController' = c
                  /\ UNCHANGED <<screenshotQueue, extraScreenshotQueue, problemInfo,
                                 hasDebugged, currentExtraProcessingAbortController>>
    ELSE IF Len(extraScreenshotQueue) = 0
      THEN NoScreenshots
      ELSE IF problemInfo = NoInfo
        THEN DebugWithoutProblemInfo
        ELSE \* generateSolution(problemInfo) makes its request at once
             /\ Suspend(
                   NewCall("debug", "generate", <<>>, extraScreenshotQueue,
                           problemInfo, llmHelper,
                           <<Event("DEBUG_START", NoPayload)>>,
                           <<Request("generateSolution", llmHelper)>>))
             /\ currentExtraProcessingAbortController' = c
             /\ UNCHANGED <<appVars, currentProcessingAbortController>>

ProcessScreenshots ==
  /\ Len(calls) < MaxCalls
  /\ StartCall(Len(calls) + 1)
  /\ UNCHANGED <<llmHelper, adapters, lastRequest, lastSwitch, lastTest, lastReply>>

\* ------------------------------------------------------------------ continuations
Codes == {"print(1)", ""}
Malformed == [shape |-> "malformed"]                 \* text JSON.parse rejects
NoSolutionKey == [shape |-> "object"]                \* JSON without "solution"
SolutionJson(code) == [shape |-> "solution", code |-> code]
GenerateResponses == {Malformed, NoSolutionKey} \cup {SolutionJson(k) : k \in Codes}
DebugResult(f) == [shape |-> "DebugResult", feedback |-> f]

\* A backend text is a sequence of tokens: the fence marker, the language tag,
\* white space, and JSON documents (each document one token).  Fence stands
\* for the three backquotes of a markdown code fence.
Fence == "<fence>"
Whitespace == {"\n", " "}
DocPrint == "{\"solution\":{\"code\":\"print(1)\"}}"
DocEmptyCode == "{\"solution\":{\"code\":\"\"}}"
DocNoSolution == "{}"
DocTruncated == "{\"solution\":"

StartsWith(s, pre) ==
  /\ Len(pre) <= Len(s)
  /\ \A i \in 1..Len(pre) : s[i] = pre[i]
DropFirst(s, n) == SubSeq(s, n + 1, Len(s))
DropLast(s, n) == SubSeq(s, 1, Len(s) - n)

RECURSIVE TrimStart(_)
TrimStart(s) ==
  IF Len(s) > 0 /\ s[1] \in Whitespace THEN TrimStart(Tail(s)) ELSE s
RECURSIVE TrimEnd(_)
TrimEnd(s) ==
  IF Len(s) > 0 /\ s[Len(s)] \in Whitespace THEN TrimEnd(DropLast(s, 1)) ELSE s

\* the opening fence (with or without the json tag) is removed at the very
\* start, the closing fence at the very end, and the rest is trimmed
CleanJsonResponse(text) ==
  LET opened == IF StartsWith(text, <<Fence, "json", "\n">>) THEN DropFirst(text, 3)
                ELSE IF StartsWith(text, <<Fence, "\n">>) THEN DropFirst(text, 2)
                ELSE text
      closed == IF EndsWith(opened, <<"\n", Fence>>) THEN DropLast(opened, 2)
                ELSE opened
  IN TrimEnd(TrimStart(closed))

\* JSON.parse: the value of a text that is one document, Malformed (a
\* SyntaxError) for any other text
JsonParse(text) ==
  IF Len(text) # 1 THEN Malformed
  ELSE IF text[1] = DocPrint THEN SolutionJson("print(1)")
  ELSE IF text[1] = DocEmptyCode THEN SolutionJson("")
  ELSE IF text[1] = DocNoSolution THEN NoSolutionKey
  ELSE Malformed

\* The texts a backend may answer generateSolution with
Fenced(doc) == <<Fence, "json", "\n", doc, "\n", Fence>>
FencedPlain(doc) == <<Fence, "\n", doc, "\n", Fence>>
FencedNewline(doc) == <<Fence, "json", "\n", doc, "\n", Fence, "\n">>
GenerateTexts ==
  {<<DocPrint>>, <<DocEmptyCode>>, <<DocNoSolution>>, <<DocTruncated>>,
   <<" ", DocPrint, "\n">>,
   Fenced(DocPrint), FencedPlain(DocPrint), FencedPlain(DocEmptyCode),
   FencedNewline(DocPrint)}
\* one text for each outcome of the parse
PlainGenerateTexts ==
  {<<DocPrint>>, Fenced(DocEmptyCode), <<DocNoSolution>>, <<DocTruncated>>}
DebugResponses == {Malformed, DebugResult("d1")}

LastOp(c) == calls[c].ops[Len(calls[c].ops)]

\* The record an invocation returns with, after publishing its last event
Finished(c, result, kind, payload) ==
  [calls[c] EXCEPT !.pc = "done", !.result = result,
                   !.events = Append(@, Event(kind, payload))]

\* (variant: the controller is cleared only while it is still the one this
\* invocation created)
FinallyClear_OwnOnly(c) ==
  /\ currentProcessingAbortController' =
       IF calls[c].branch = "image" /\ currentProcessingAbortController = c
         THEN 0 ELSE currentProcessingAbortController
  /\ currentExtraProcessingAbortController' =
       IF calls[c].branch = "debug" /\ currentExtraProcessingAbortController = c
         THEN 0 ELSE currentExtraProcessingAbortController

\* (variant: one shared finally clears both controllers)
FinallyClear_Both(c) ==
  /\ currentProcessingAbortController' = 0
  /\ currentExtraProcessingAbortController' = 0

\* finally { controller = null } of the image branch and of the debug branch
FinallyClear(c) ==
  /\ currentProcessingAbortController' =
       IF calls[c].branch = "image" THEN 0 ELSE currentProcessingAbortController
  /\ currentExtraProcessingAbortController' =
       IF calls[c].branch = "debug" THEN 0 ELSE currentExtraProcessingAbortController

\* (variant: the catch block of the initial pipeline rolls the view back)
PublishError_RollsBack(c, msg) ==
  /\ Return(c, Finished(c, Message(msg),
                        IF calls[c].branch = "debug" THEN "DEBUG_ERROR"
                        ELSE "INITIAL_SOLUTION_ERROR", Message(msg)))
  /\ FinallyClear(c)
  /\ view' = IF calls[c].branch = "debug" THEN view ELSE "queue"
  /\ UNCHANGED <<screenshotQueue, extraScreenshotQueue, problemInfo, hasDebugged>>

\* (variant: the catch block logs the error and publishes nothing)
PublishError_Silent(c, msg) ==
  /\ Return(c, [calls[c] EXCEPT !.pc = "done", !.result = Message(msg)])
  /\ FinallyClear(c)
  /\ UNCHANGED appVars

\* catch + finally of the branch the call is in
PublishError(c, msg) ==
  /\ Return(c, Finished(c, Message(msg),
                        IF calls[c].branch = "debug" THEN "DEBUG_ERROR"
                        ELSE "INITIAL_SOLUTION_ERROR", Message(msg)))
  /\ FinallyClear(c)
  /\ UNCHANGED appVars

\* The messages the awaited operation may reject with
FailureMessages(c) ==
  IF LastOp(c).backend = "none" THEN {"Cannot read properties of null"}
  ELSE IF LastOp(c).op = "generateSolution" THEN {"fetch failed"}
  ELSE {"ENOENT"}

\* (variant: a failed operation is issued once more instead of being reported)
AdapterRejects_Retries(c) ==
  /\ c \in 1..Len(calls)
  /\ InFlight(c)
  /\ Len(calls[c].ops) < 3
  /\ calls' = [calls EXCEPT ![c].ops = Append(@, LastOp(c))]
  /\ returned' = NoCall
  /\ UNCHANGED <<appVars, tokenVars, llmHelper, adapters, lastRequest, lastSwitch,
                 lastTest, lastReply>>

\* The awaited operation rejects: a file cannot be read, this.model is null,
\* or the backend / network fails.
AdapterRejects(c) ==
  /\ c \in 1..Len(calls)
  /\ InFlight(c)
  /\ \E msg \in FailureMessages(c) : PublishError(c, msg)
  /\ UNCHANGED <<llmHelper, adapters, lastRequest, lastSwitch, lastTest, lastReply>>

\* analyzeAudioFile / analyzeImageFile resolved with { text, timestamp }
AnalysisResolves(c, text) ==
  /\ c \in 1..Len(calls)
  /\ calls[c].branch \in {"audio", "image"}
  /\ calls[c].pc = "net"
  /\ LastOp(c).backend # "none"
  /\ IF calls[c].branch = "audio"
       THEN /\ Return(c, Finished(c, AnalysisResult(text),
                                  "PROBLEM_EXTRACTED", AnalysisResult(text)))
            /\ problemInfo' = AudioProblemInfo(text)
       ELSE /\ Return(c, Finished(c, AnalysisResult(text),
                                  "PROBLEM_EXTRACTED", ImageProblemInfo(text)))
            /\ problemInfo' = ImageProblemInfo(text)
  /\ FinallyClear(c)
  /\ UNCHANGED <<view, screenshotQueue, extraScreenshotQueue, hasDebugged,
                 llmHelper, adapters, lastRequest, lastSwitch, lastTest, lastReply>>

\* (variant: the problem info is read again from the application state for
\* the second operation)
GenerateResolves_RereadsInfo(c, text) ==
  LET r == JsonParse(CleanJsonResponse(text)) IN
  /\ c \in 1..Len(calls)
  /\ calls[c].pc = "generate"
  /\ LastOp(c).backend # "none"
  /\ IF r = Malformed
       THEN PublishError(c, "Unexpected token")
       ELSE IF r = NoSolutionKey
         THEN PublishError(c, "Cannot read properties of undefined")
         ELSE /\ calls' = [calls EXCEPT ![c].pc = "net", ![c].code = r.code,
                            ![c].result = r,
                            ![c].helper = llmHelper,
                            ![c].sent = Append(@, problemInfo),
                            ![c].ops = Append(@,
                               Request("debugSolutionWithImages", llmHelper))]
              /\ returned' = NoCall
              /\ UNCHANGED <<appVars, tokenVars>>
  /\ UNCHANGED <<llmHelper, adapters, lastRequest, lastSwitch, lastTest, lastReply>>

\* generateSolution resolved with the backend's text: cleanJsonResponse,
\* JSON.parse, then (in processScreenshots) currentSolution.solution.code and
\* this.llmHelper.debugSolutionWithImages(..)
GenerateResolves(c, text) ==
  LET r == JsonParse(CleanJsonResponse(text)) IN
  /\ c \in 1..Len(calls)
  /\ calls[c].pc = "generate"
  /\ LastOp(c).backend # "none"
  /\ IF r = Malformed
       THEN PublishError(c, "Unexpected token")
       ELSE IF r = NoSolutionKey
         THEN PublishError(c, "Cannot read properties of undefined")
         ELSE /\ calls' = [calls EXCEPT ![c].pc = "net", ![c].code = r.code,
                            ![c].result = r,
                            ![c].helper = llmHelper,
                            ![c].sent = Append(@, calls[c].info),
                            ![c].ops = Append(@,
                               Request("debugSolutionWithImages", llmHelper))]
              /\ returned' = NoCall
              /\ UNCHANGED <<appVars, tokenVars>>
  /\ UNCHANGED <<llmHelper, adapters, lastRequest, lastSwitch, lastTest, lastReply>>

\* (variant: the success is published without setting hasDebugged)
DebugResolves_NoFlag(c, r) ==
  /\ c \in 1..Len(calls)
  /\ calls[c].branch = "debug"
  /\ calls[c].pc = "net"
  /\ LastOp(c).backend # "none"
  /\ IF r = Malformed
       THEN PublishError(c, "Unexpected token")
       ELSE /\ Return(c, Finished(c, r, "DEBUG_SUCCESS", r))
            /\ FinallyClear(c)
            /\ UNCHANGED appVars
  /\ UNCHANGED <<llmHelper, adapters, lastRequest, lastSwitch, lastTest, lastReply>>

\* debugSolutionWithImages resolved
DebugResolves(c, r) ==
  /\ c \in 1..Len(calls)
  /\ calls[c].branch = "debug"
  /\ calls[c].pc = "net"
  /\ LastOp(c).backend # "none"
  /\ IF r = Malformed
       THEN PublishError(c, "Unexpected token")
       ELSE /\ hasDebugged' = TRUE
            /\ Return(c, Finished(c, r, "DEBUG_SUCCESS", r))
            /\ FinallyClear(c)
            /\ UNCHANGED <<view, screenshotQueue, extraScreenshotQueue, problemInfo>>
  /\ UNCHANGED <<llmHelper, adapters, lastRequest, lastSwitch, lastTest, lastReply>>

\* ------------------------------------------------------------------ cancel / reset
\* (variant: only the primary controller is aborted and cleared)
CancelEffect_PrimaryOnly ==
  /\ calls' = [c \in 1..Len(calls) |->
                 [calls[c] EXCEPT
                    !.aborted = @ \/ c = currentProcessingAbortController]]
  /\ currentProcessingAbortController' = 0
  /\ UNCHANGED currentExtraProcessingAbortController
  /\ hasDebugged' = FALSE

CancelEffect ==
  /\ calls' = [c \in 1..Len(calls) |->
                 [calls[c] EXCEPT
                    !.aborted = @ \/ c \in {currentProcessingAbortController,
                                            currentExtraProcessingAbortController}]]
  /\ currentProcessingAbortController' = 0
  /\ currentExtraProcessingAbortController' = 0
  /\ hasDebugged' = FALSE

CancelOngoingRequests ==
  /\ CancelEffect
  /\ returned' = NoCall
  /\ UNCHANGED <<view, screenshotQueue, extraScreenshotQueue, problemInfo,
                 llmHelper, adapters, lastRequest, lastSwitch, lastTest, lastReply>>

\* What the reset handler leaves in `returned`: it is no processScreenshots()
\* invocation (pc "reset"), and it has sent "reset-view" to the renderer.
ResetDone == [NoCall EXCEPT !.branch = "reset", !.pc = "reset",
                            !.events = <<Event("reset-view", NoPayload)>>]

\* (variant: the handler clears the queues and the view but forgets to cancel)
ResetShortcut_NoCancel ==
  /\ ClearQueuesEffect
  /\ view' = "queue"
  /\ returned' = ResetDone
  /\ UNCHANGED <<hasDebugged, tokenVars, calls, llmHelper, adapters,
                 lastRequest, lastSwitch, lastTest, lastReply>>

\* The reset shortcut: cancel, clear the queues, back to the queue view, then
\* notify the renderer
ResetShortcut ==
  /\ CancelEffect
  /\ ClearQueuesEffect
  /\ view' = "queue"
  /\ returned' = ResetDone
  /\ UNCHANGED <<llmHelper, adapters, lastRequest, lastSwitch, lastTest, lastReply>>

\* ipc "reset-queues"
ResetQueuesIpc ==
  /\ ClearQueuesEffect
  /\ returned' = NoCall
  /\ UNCHANGED <<view, hasDebugged, tokenVars, llmHelper, adapters, calls,
                 lastRequest, lastSwitch, lastTest, lastReply>>

\* ------------------------------------------------------------------ provider switch (ipc)
orchVars == <<appVars, tokenVars, calls>>
Success == [success |-> TRUE, error |-> Undefined]
Failure(msg) == [success |-> FALSE, error |-> msg]

\* reinitializeLLMHelper(useOllama, apiKey, model, url): a new LLMHelper is
\* constructed and, if the constructor returns, becomes the active one.
ReinitializeLLMHelper(useOllama, apiKey, model, url) ==
  IF ConstructThrows(apiKey, useOllama)
    THEN /\ lastSwitch' = Failure("Either provide Gemini API key or enable Ollama mode")
         /\ UNCHANGED <<llmHelper, adapters>>
    ELSE /\ adapters' = Append(adapters, Construct(apiKey, useOllama, model, url))
         /\ llmHelper' = Len(adapters) + 1
         /\ lastSwitch' = Success

\* ipc "switch-to-ollama"
SwitchToOllamaIpc(model, url) ==
  /\ Len(adapters) < MaxAdapters
  /\ ReinitializeLLMHelper(TRUE, Undefined, model, url)
  /\ returned' = NoCall /\ UNCHANGED <<orchVars, lastRequest, lastTest, lastReply>>

\* ipc "switch-to-gemini"
SwitchToGeminiIpc(apiKey) ==
  /\ Len(adapters) < MaxAdapters
  /\ ReinitializeLLMHelper(FALSE, apiKey, Undefined, Undefined)
  /\ returned' = NoCall /\ UNCHANGED <<orchVars, lastRequest, lastTest, lastReply>>

\* ------------------------------------------------------------------ LLMHelper methods
ModelLists == {<<>>, <<"m1">>, <<"m2", "m1">>}   \* what GET /api/tags may list

PendingInits(a) == a.initList + a.initProbe + a.initFallback

\* LLMHelper.switchToOllama(model?, url?) on the active object
SwitchToOllama(model, url) ==
  LET a == adapters[llmHelper]
      b == [a EXCEPT !.useOllama = TRUE,
                     !.ollamaUrl = IF url # Undefined THEN url ELSE @,
                     !.ollamaModel = IF model # Undefined THEN model ELSE @,
                     !.initList = IF model # Undefined THEN @ ELSE @ + 1,
                     !.chosen = model]
  IN /\ model = Undefined => PendingInits(a) < MaxInits
     /\ adapters' = [adapters EXCEPT ![llmHelper] = b]
     /\ returned' = NoCall /\ UNCHANGED <<orchVars, llmHelper, lastRequest, lastSwitch, lastTest, lastReply>>

\* (variant: the mode is switched before the handle is tested)
SwitchToGemini_NoCheck(apiKey) ==
  LET a == adapters[llmHelper]
      withKey == IF apiKey # Undefined THEN [a EXCEPT !.model = apiKey] ELSE a
  IN /\ adapters' = [adapters EXCEPT ![llmHelper] =
                       [withKey EXCEPT !.useOllama = FALSE, !.chosen = Undefined]]
     /\ returned' = NoCall /\ UNCHANGED <<orchVars, llmHelper, lastRequest, lastSwitch, lastTest, lastReply>>

\* LLMHelper.switchToGemini(apiKey?) on the active object
SwitchToGemini(apiKey) ==
  LET a == adapters[llmHelper]
      withKey == IF apiKey # Undefined THEN [a EXCEPT !.model = apiKey] ELSE a
  IN /\ adapters' = [adapters EXCEPT ![llmHelper] =
                       IF withKey.model = NoModel /\ apiKey = Undefined
                         THEN withKey                      \* throws
                         ELSE [withKey EXCEPT !.useOllama = FALSE,
                                              !.chosen = Undefined]]
     /\ returned' = NoCall /\ UNCHANGED <<orchVars, llmHelper, lastRequest, lastSwitch, lastTest, lastReply>>

\* (variant: the last listed model is selected instead of the first)
InitList_PicksLast(h, models) ==
  /\ h \in 1..Len(adapters)
  /\ adapters[h].initList > 0
  /\ LET a == adapters[h] IN
     IF Len(models) = 0
       THEN /\ adapters' = [adapters EXCEPT ![h].initList = @ - 1]
            /\ UNCHANGED lastRequest
       ELSE LET b == [a EXCEPT !.initList = @ - 1, !.initProbe = @ + 1,
                               !.ollamaModel =
                                  IF \E i \in 1..Len(models) : models[i] = a.ollamaModel
                                    THEN @ ELSE models[Len(models)]]
            IN /\ adapters' = [adapters EXCEPT ![h] = b]
               /\ lastRequest' = [op |-> "callOllama", helper |-> h,
                                   backend |-> "ollama", useOllama |-> b.useOllama]
  /\ returned' = NoCall /\ UNCHANGED <<orchVars, llmHelper, lastSwitch, lastTest, lastReply>>

\* initializeOllamaModel(): the model list arrived (empty when the fetch failed)
InitList(h, models) ==
  /\ h \in 1..Len(adapters)
  /\ adapters[h].initList > 0
  /\ LET a == adapters[h] IN
     IF Len(models) = 0
       THEN /\ adapters' = [adapters EXCEPT ![h].initList = @ - 1]
            /\ UNCHANGED lastRequest
       ELSE LET b == [a EXCEPT !.initList = @ - 1, !.initProbe = @ + 1,
                               !.ollamaModel =
                                  IF \E i \in 1..Len(models) : models[i] = a.ollamaModel
                                    THEN @ ELSE models[1]]
            IN /\ adapters' = [adapters EXCEPT ![h] = b]
               /\ lastRequest' = [op |-> "callOllama", helper |-> h,
                                   backend |-> "ollama", useOllama |-> b.useOllama]
  /\ returned' = NoCall /\ UNCHANGED <<orchVars, llmHelper, lastSwitch, lastTest, lastReply>>

\* (variant: no try/catch around the probe, its failure rejects the promise)
InitProbe_Rethrows(h, ok) ==
  /\ h \in 1..Len(adapters)
  /\ adapters[h].initProbe > 0
  /\ adapters' = [adapters EXCEPT ![h].initProbe = @ - 1,
                    ![h].initRejected = @ \/ ~ok]
  /\ returned' = NoCall /\ UNCHANGED <<orchVars, llmHelper, lastRequest, lastSwitch, lastTest, lastReply>>

\* initializeOllamaModel(): the probe prompt answered, or failed; on failure
\* the catch block asks getOllamaModels() again, which answers [] at once when
\* the object is no longer in Ollama mode.
InitProbe(h, ok) ==
  /\ h \in 1..Len(adapters)
  /\ adapters[h].initProbe > 0
  /\ adapters' = [adapters EXCEPT ![h].initProbe = @ - 1,
                    ![h].initFallback =
                       IF ~ok /\ adapters[h].useOllama THEN @ + 1 ELSE @]
  /\ returned' = NoCall /\ UNCHANGED <<orchVars, llmHelper, lastRequest, lastSwitch, lastTest, lastReply>>

\* initializeOllamaModel(): the fallback model list arrived
InitFallback(h, models) ==
  /\ h \in 1..Len(adapters)
  /\ adapters[h].initFallback > 0
  /\ adapters' = [adapters EXCEPT ![h].initFallback = @ - 1,
                    ![h].ollamaModel = IF Len(models) > 0 THEN models[1] ELSE @]
  /\ returned' = NoCall /\ UNCHANGED <<orchVars, llmHelper, lastRequest, lastSwitch, lastTest, lastReply>>

\* A facade operation called directly on the active object (ipc
\* "analyze-image-file", "analyze-audio-file", "gemini-chat", ...): the request
\* it makes.
DirectCall(op) ==
  /\ lastRequest' = Request(op, llmHelper)
  /\ returned' = NoCall /\ UNCHANGED <<orchVars, llmHelper, adapters, lastSwitch, lastTest, lastReply>>

\* ------------------------------------------------------------------ testConnection
UnavailableAt(url) ==
  IF url = DefaultUrl THEN "Ollama not available at http://localhost:11434"
  ELSE "Ollama not available at u2"
PendingTests(a) == a.testTags + a.testProbe + a.testGemini

\* LLMHelper.testConnection() on the active object, up to its first await (or to
\* its return when there is no Gemini model)
TestConnection ==
  LET h == llmHelper
      a == adapters[h]
  IN /\ IF a.useOllama
          THEN \* checkOllamaAvailable(): GET /api/tags
               /\ PendingTests(a) < MaxTests
               /\ adapters' = [adapters EXCEPT ![h].testTags = @ + 1]
               /\ lastRequest' = [op |-> "checkOllamaAvailable", helper |-> h,
                                   backend |-> "ollama", useOllama |-> TRUE]
               /\ UNCHANGED lastTest
          ELSE IF a.model = NoModel
            THEN /\ lastTest' = Failure("No Gemini model configured")
                 /\ UNCHANGED <<adapters, lastRequest>>
            ELSE /\ PendingTests(a) < MaxTests
                 /\ adapters' = [adapters EXCEPT ![h].testGemini = @ + 1]
                 /\ lastRequest' = Request("testConnection", h)
                 /\ UNCHANGED lastTest
     /\ returned' = NoCall /\ UNCHANGED <<orchVars, llmHelper, lastSwitch, lastReply>>

\* (variant: the result of the liveness check is ignored)
TestTags_ProbesAnyway(h, available) ==
  /\ h \in 1..Len(adapters)
  /\ adapters[h].testTags > 0
  /\ adapters' = [adapters EXCEPT ![h].testTags = @ - 1, ![h].testProbe = @ + 1]
  /\ lastRequest' = [op |-> "callOllama", helper |-> h, backend |-> "ollama",
                      useOllama |-> adapters[h].useOllama]
  /\ UNCHANGED lastTest
  /\ returned' = NoCall /\ UNCHANGED <<orchVars, llmHelper, lastSwitch, lastReply>>

\* testConnection(): checkOllamaAvailable() answered (false when the fetch
\* failed or the response was not ok)
TestTags(h, available) ==
  /\ h \in 1..Len(adapters)
  /\ adapters[h].testTags > 0
  /\ IF available
       THEN \* callOllama("Hello")
            /\ adapters' = [adapters EXCEPT ![h].testTags = @ - 1,
                                            ![h].testProbe = @ + 1]
            /\ lastRequest' = [op |-> "callOllama", helper |-> h,
                                backend |-> "ollama",
                                useOllama |-> adapters[h].useOllama]
            /\ UNCHANGED lastTest
       ELSE /\ adapters' = [adapters EXCEPT ![h].testTags = @ - 1]
            /\ lastTest' = Failure(UnavailableAt(adapters[h].ollamaUrl))
            /\ UNCHANGED lastRequest
  /\ returned' = NoCall /\ UNCHANGED <<orchVars, llmHelper, lastSwitch, lastReply>>

\* (variant: the catch block swallows the error and reports success)
TestProbe_AlwaysSucceeds(h, ok) ==
  /\ h \in 1..Len(adapters)
  /\ adapters[h].testProbe > 0
  /\ adapters' = [adapters EXCEPT ![h].testProbe = @ - 1]
  /\ lastTest' = Success
  /\ returned' = NoCall /\ UNCHANGED <<orchVars, llmHelper, lastRequest, lastSwitch, lastReply>>

\* testConnection(): the probe prompt answered, or callOllama threw
TestProbe(h, ok) ==
  /\ h \in 1..Len(adapters)
  /\ adapters[h].testProbe > 0
  /\ adapters' = [adapters EXCEPT ![h].testProbe = @ - 1]
  /\ lastTest' = IF ok THEN Success ELSE Failure("Failed to connect to Ollama")
  /\ returned' = NoCall /\ UNCHANGED <<orchVars, llmHelper, lastRequest, lastSwitch, lastReply>>

\* testConnection(): generateContent("Hello") answered with a text, with an
\* empty text, or threw
GeminiOutcomes == {"text", "empty", "error"}
TestGemini(h, outcome) ==
  /\ h \in 1..Len(adapters)
  /\ adapters[h].testGemini > 0
  /\ adapters' = [adapters EXCEPT ![h].testGemini = @ - 1]
  /\ lastTest' = IF outcome = "text" THEN Success
                 ELSE IF outcome = "empty" THEN Failure("Empty response from Gemini")
                 ELSE Failure("fetch failed")
  /\ returned' = NoCall /\ UNCHANGED <<orchVars, llmHelper, lastRequest, lastSwitch, lastReply>>

\* ------------------------------------------------------------------ getOllamaModels
\* What GET /api/tags may answer: a failure (the fetch throws or the response
\* is not ok), a body without a models field, or a body listing models.
TagsAnswers ==
  {[ok |-> FALSE, hasModels |-> FALSE, models |-> <<>>],
   [ok |-> TRUE, hasModels |-> FALSE, models |-> <<>>]}
    \cup {[ok |-> TRUE, hasModels |-> TRUE,
           models |-> [i \in 1..Len(l) |-> [name |-> l[i], size |-> i]]] :
            l \in ModelLists}

\* (variant: the names are returned in reverse order)
ListedNames_Reversed(answer) ==
  IF ~answer.ok \/ ~answer.hasModels THEN <<>>
  ELSE [i \in 1..Len(answer.models) |->
           answer.models[Len(answer.models) + 1 - i].name]

\* data.models?.map(model => model.name) || [], and [] from the catch block
ListedNames(answer) ==
  IF ~answer.ok \/ ~answer.hasModels THEN <<>>
  ELSE [i \in 1..Len(answer.models) |-> answer.models[i].name]

\* LLMHelper.getOllamaModels() on object h of the heap, up to its await (or to
\* its return when the object is not in Ollama mode)
GetOllamaModels(heap, h) ==
  IF ~heap[h].useOllama
    THEN /\ lastReply' = Reply("get-available-ollama-models", "value", <<>>)
         /\ adapters' = heap
         /\ UNCHANGED lastRequest
    ELSE /\ heap[h].listTags < MaxLists
         /\ adapters' = [heap EXCEPT ![h].listTags = @ + 1]
         /\ lastRequest' = [op |-> "getOllamaModels", helper |-> h,
                             backend |-> "ollama", useOllama |-> TRUE]
         /\ UNCHANGED lastReply

\* getOllamaModels(): GET /api/tags answered
ListTags(h, answer) ==
  /\ h \in 1..Len(adapters)
  /\ adapters[h].listTags > 0
  /\ adapters' = [adapters EXCEPT ![h].listTags = @ - 1]
  /\ lastReply' = Reply("get-available-ollama-models", "value", ListedNames(answer))
  /\ returned' = NoCall
  /\ UNCHANGED <<orchVars, llmHelper, lastRequest, lastSwitch, lastTest>>

\* ------------------------------------------------------------------ renderer commands
\* ProcessingHelper.isLLMHelperReady(): an adapter has been installed
\* (llmHelper = 0 stands for null)
IsLLMHelperReady == llmHelper # 0

NotConfigured == "LLM Helper not configured. Please set up your AI model first."

\* The adapter operation each analysis command ends in
AnalysisCommands ==
  {"analyze-audio-base64", "analyze-audio-file", "analyze-image-file", "gemini-chat"}
CommandOp(cmd) ==
  CASE cmd = "analyze-audio-base64" -> "analyzeAudioFromBase64"
    [] cmd = "analyze-audio-file" -> "analyzeAudioFile"
    [] cmd = "analyze-image-file" -> "analyzeImageFile"
    [] cmd = "gemini-chat" -> "chatWithGemini"

\* (variant: the readiness check is skipped for the chat command)
AnalyzeIpc_Unchecked(cmd) ==
  /\ cmd \in AnalysisCommands
  /\ IF ~IsLLMHelperReady /\ cmd # "gemini-chat"
       THEN /\ lastReply' = Reply(cmd, "error", NotConfigured)
            /\ UNCHANGED lastRequest
       ELSE /\ lastRequest' =
                 IF IsLLMHelperReady THEN Request(CommandOp(cmd), llmHelper)
                 ELSE [NoRequest EXCEPT !.op = CommandOp(cmd)]
            /\ UNCHANGED lastReply
  /\ returned' = NoCall
  /\ UNCHANGED <<orchVars, llmHelper, adapters, lastSwitch, lastTest>>

\* ipc "analyze-audio-base64", "analyze-audio-file", "analyze-image-file" and
\* "gemini-chat", up to the await of the adapter operation
AnalyzeIpc(cmd) ==
  /\ cmd \in AnalysisCommands
  /\ IF ~IsLLMHelperReady
       THEN /\ lastReply' = Reply(cmd, "error", NotConfigured)
            /\ UNCHANGED lastRequest
       ELSE /\ lastRequest' = Request(CommandOp(cmd), llmHelper)
            /\ UNCHANGED lastReply
  /\ returned' = NoCall
  /\ UNCHANGED <<orchVars, llmHelper, adapters, lastSwitch, lastTest>>

\* ipc "test-llm-connection"
TestLlmConnectionIpc ==
  IF ~IsLLMHelperReady
    THEN /\ lastReply' = Reply("test-llm-connection", "value", Failure(NotConfigured))
         /\ returned' = NoCall
         /\ UNCHANGED <<orchVars, llmHelper, adapters, lastRequest, lastSwitch, lastTest>>
    ELSE TestConnection

\* getCurrentProvider(), getCurrentModel()
GetCurrentProvider(a) == IF a.useOllama THEN "ollama" ELSE "gemini"
GetCurrentModel(a) == IF a.useOllama THEN a.ollamaModel ELSE "gemini-2.0-flash"
DefaultConfig == [provider |-> "gemini", model |-> "Not configured", isOllama |-> FALSE]

\* ipc "get-current-llm-config"
GetCurrentLlmConfigIpc ==
  /\ lastReply' = Reply("get-current-llm-config", "value",
        IF ~IsLLMHelperReady THEN DefaultConfig
        ELSE [provider |-> GetCurrentProvider(adapters[llmHelper]),
              model |-> GetCurrentModel(adapters[llmHelper]),
              isOllama |-> adapters[llmHelper].useOllama])
  /\ returned' = NoCall
  /\ UNCHANGED <<orchVars, llmHelper, adapters, lastRequest, lastSwitch, lastTest>>

\* ipc "get-available-ollama-models"; envUrl is process.env.OLLAMA_URL. Without
\* an adapter the handler lists on a temporary object it constructs (after the
\* dynamic import, which changes no state).
GetAvailableOllamaModelsIpc(envUrl) ==
  /\ IF ~IsLLMHelperReady
       THEN /\ Len(adapters) < MaxAdapters
            /\ GetOllamaModels(
                  Append(adapters,
                         Construct(Undefined, TRUE, Undefined,
                                   IF envUrl = Undefined THEN DefaultUrl ELSE envUrl)),
                  Len(adapters) + 1)
       ELSE GetOllamaModels(adapters, llmHelper)
  /\ returned' = NoCall
  /\ UNCHANGED <<orchVars, llmHelper, lastSwitch, lastTest>>

\* The application before and after a provider has been configured
InitUi ==
  /\ view = "queue"
  /\ screenshotQueue = <<>>
  /\ extraScreenshotQueue = <<>>
  /\ problemInfo = NoInfo
  /\ hasDebugged = FALSE
  /\ currentProcessingAbortController = 0
  /\ currentExtraProcessingAbortController = 0
  /\ \/ llmHelper = 0 /\ adapters = <<>>
     \/ llmHelper = 1 /\ \E a \in InitialAdapters : adapters = <<a>>
  /\ calls = <<>>
  /\ returned = NoCall
  /\ lastRequest = NoRequest
  /\ lastSwitch = Success
  /\ lastTest = Success
  /\ lastReply = NoReply

\* ------------------------------------------------------------------ specifications
\* Spec: the orchestrator driven by the global shortcuts (capture, process,
\* reset) and by cancelOngoingRequests(), with the adapter it was constructed with.
CallIds == 1..MaxCalls
AdapterIds == 1..MaxAdapters

Next ==
  \/ \E p \in Paths : TakeScreenshot(p)
  \/ ProcessScreenshots
  \/ \E c \in CallIds : AdapterRejects(c)
  \/ \E c \in CallIds, t \in Texts : AnalysisResolves(c, t)
  \/ \E c \in CallIds, t \in PlainGenerateTexts : GenerateResolves(c, t)
  \/ \E c \in CallIds, r \in DebugResponses : DebugResolves(c, r)
  \/ CancelOngoingRequests
  \/ ResetShortcut

Spec == Init /\ [][Next]_vars

\* The orchestrator together with the commands of the renderer (ipc)
NextIpc ==
  \/ Next
  \/ ResetQueuesIpc
  \/ \E m \in {Undefined} \cup ModelNames : SwitchToOllamaIpc(m, Undefined)
  \/ \E k \in {Undefined} \cup ApiKeys : SwitchToGeminiIpc(k)

SpecIpc == Init /\ [][NextIpc]_vars

NextAdapter ==
  \/ \E m \in {Undefined} \cup ModelNames, u \in {Undefined} \cup Urls :
        SwitchToOllama(m, u)
  \/ \E k \in {Undefined} \cup ApiKeys : SwitchToGemini(k)
  \/ \E h \in AdapterIds, l \in ModelLists : InitList(h, l)
  \/ \E h \in AdapterIds, ok \in BOOLEAN : InitProbe(h, ok)
  \/ \E h \in AdapterIds, l \in ModelLists : InitFallback(h, l)
  \/ \E op \in DirectOps : DirectCall(op)
  \/ TestConnection
  \/ \E h \in AdapterIds, ok \in BOOLEAN : TestTags(h, ok)
  \/ \E h \in AdapterIds, ok \in BOOLEAN : TestProbe(h, ok)
  \/ \E h \in AdapterIds, o \in GeminiOutcomes : TestGemini(h, o)

SpecAdapter == Init /\ [][NextAdapter]_vars

\* The provider commands of the renderer alone: the switch handlers, the
\* initialisation a new Ollama adapter runs, and the facade operations
NextSwitch ==
  \/ \E m \in {Undefined} \cup ModelNames, u \in {Undefined} \cup Urls :
        SwitchToOllamaIpc(m, u)
  \/ \E k \in {Undefined} \cup ApiKeys : SwitchToGeminiIpc(k)
  \/ \E h \in AdapterIds, l \in ModelLists : InitList(h, l)
  \/ \E h \in AdapterIds, ok \in BOOLEAN : InitProbe(h, ok)
  \/ \E h \in AdapterIds, l \in ModelLists : InitFallback(h, l)
  \/ \E op \in DirectOps : DirectCall(op)

SpecSwitch == Init /\ [][NextSwitch]_vars

\* The commands of the renderer that query or use the adapter, from an
\* application that may not have an adapter yet
NextUi ==
  \/ \E cmd \in AnalysisCommands : AnalyzeIpc(cmd)
  \/ TestLlmConnectionIpc
  \/ GetCurrentLlmConfigIpc
  \/ SwitchToOllamaIpc(Undefined, Undefined)
  \/ \E k \in {Undefined} \cup ApiKeys : SwitchToGeminiIpc(k)
  \/ \E h \in AdapterIds, ok \in BOOLEAN : TestTags(h, ok)
  \/ \E h \in AdapterIds, ok \in BOOLEAN : TestProbe(h, ok)
  \/ \E h \in AdapterIds, o \in GeminiOutcomes : TestGemini(h, o)

SpecUi == InitUi /\ [][NextUi]_vars

\* Processing a primary queue that captures have filled: every queue of up to
\* MaxItems paths, processed, answered, cancelled
RECURSIVE QueuesUpTo(_)
QueuesUpTo(n) ==
  IF n = 0 THEN {<<>>}
  ELSE LET shorter == QueuesUpTo(n - 1) IN
       shorter \cup {Append(q, p) : q \in shorter, p \in SelectPaths}

InitSelect ==
  /\ view = "queue"
  /\ screenshotQueue \in QueuesUpTo(MaxItems)
  /\ extraScreenshotQueue = <<>>
  /\ problemInfo = NoInfo
  /\ hasDebugged = FALSE
  /\ currentProcessingAbortController = 0
  /\ currentExtraProcessingAbortController = 0
  /\ llmHelper = 1
  /\ \E a \in InitialAdapters : adapters = <<a>>
  /\ calls = <<>>
  /\ returned = NoCall
  /\ lastRequest = NoRequest
  /\ lastSwitch = Success
  /\ lastTest = Success
  /\ lastReply = NoReply

NextSelect ==
  \/ ProcessScreenshots
  \/ \E c \in CallIds : AdapterRejects(c)
  \/ \E c \in CallIds, t \in Texts : AnalysisResolves(c, t)
  \/ CancelOngoingRequests

SpecSelect == InitSelect /\ [][NextSelect]_vars

\* The orchestrator while the reset shortcut is not used: invocations follow
\* one another with nothing that sets the view back to queue
NextNoReset ==
  \/ \E p \in Paths : TakeScreenshot(p)
  \/ ProcessScreenshots
  \/ \E c \in CallIds : AdapterRejects(c)
  \/ \E c \in CallIds, t \in Texts : AnalysisResolves(c, t)
  \/ \E c \in CallIds, t \in PlainGenerateTexts : GenerateResolves(c, t)
  \/ \E c \in CallIds, r \in DebugResponses : DebugResolves(c, r)
  \/ CancelOngoingRequests

SpecNoReset == Init /\ [][NextNoReset]_vars

\* The debug pipeline over every text the backend may answer generateSolution
\* with, without cancel and reset
NextParse ==
  \/ \E p \in Paths : TakeScreenshot(p)
  \/ ProcessScreenshots
  \/ \E c \in CallIds : AdapterRejects(c)
  \/ \E c \in CallIds, t \in Texts : AnalysisResolves(c, t)
  \/ \E c \in CallIds, t \in GenerateTexts : GenerateResolves(c, t)
  \/ \E c \in CallIds, r \in DebugResponses : DebugResolves(c, r)

SpecParse == Init /\ [][NextParse]_vars

\* The two pipelines side by side: one answer of each kind, cancellation,
\* and the reset shortcut, which lets a primary invocation start while an
\* earlier one is still in flight
NextChannels ==
  \/ \E p \in Paths : TakeScreenshot(p)
  \/ ProcessScreenshots
  \/ \E c \in CallIds : AdapterRejects(c)
  \/ \E c \in CallIds : AnalysisResolves(c, "t1")
  \/ \E c \in CallIds : GenerateResolves(c, <<DocPrint>>)
  \/ \E c \in CallIds, r \in DebugResponses : DebugResolves(c, r)
  \/ CancelOngoingRequests
  \/ ResetShortcut

SpecChannels == Init /\ [][NextChannels]_vars

\* The operation invocation c is awaiting settles: it rejects, or it resolves
\* with an answer
Settles(c) ==
  \/ AdapterRejects(c)
  \/ AnalysisResolves(c, "t1")
  \/ GenerateResolves(c, <<DocPrint>>)
  \/ \E r \in DebugResponses : DebugResolves(c, r)

\* Captures processed in front of a backend that settles every operation
NextLive ==
  \/ \E p \in Paths : TakeScreenshot(p)
  \/ ProcessScreenshots
  \/ \E c \in CallIds : Settles(c)

SpecLive ==
  Init /\ [][NextLive]_vars /\ \A c \in CallIds : WF_vars(Settles(c))

\* The orchestrator in front of a backend that never answers: no awaited
\* adapter operation settles. No operation is given the AbortSignal of the
\* invocation's controller, so abort() settles none either; what is left is
\* capture, process, cancel and reset, each taken whenever it stays possible.
NextStalled ==
  \/ \E p \in Paths : TakeScreenshot(p)
  \/ ProcessScreenshots
  \/ CancelOngoingRequests
  \/ ResetShortcut

SpecStalled == Init /\ [][NextStalled]_vars /\ WF_vars(NextStalled)

\* Listing the local models: on the active adapter while its mode is switched
\* and its initialisation runs, or on a temporary object when there is none
NextModels ==
  \/ \E u \in {Undefined} \cup Urls : GetAvailableOllamaModelsIpc(u)
  \/ \E h \in AdapterIds, answer \in TagsAnswers : ListTags(h, answer)
  \/ /\ IsLLMHelperReady
     /\ \E m \in {Undefined} \cup ModelNames, u \in {Undefined} \cup Urls :
           SwitchToOllama(m, u)
  \/ /\ IsLLMHelperReady
     /\ \E k \in {Undefined} \cup ApiKeys : SwitchToGemini(k)
  \/ \E h \in AdapterIds, l \in ModelLists : InitList(h, l)
  \/ \E h \in AdapterIds, ok \in BOOLEAN : InitProbe(h, ok)
  \/ \E h \in AdapterIds, l \in ModelLists : InitFallback(h, l)

SpecModels == InitUi /\ [][NextModels]_vars

\* ================================================================== claims
StartEvent(branch) ==
  Event(IF branch = "debug" THEN "DEBUG_START" ELSE "INITIAL_START", NoPayload)
TerminalKinds(branch) ==
  IF branch = "debug" THEN {"DEBUG_SUCCESS", "DEBUG_ERROR"}
  ELSE {"PROBLEM_EXTRACTED", "INITIAL_SOLUTION_ERROR"}
AllTerminalKinds == TerminalKinds("debug") \cup TerminalKinds("image")
HasReturned == returned.pc = "done"
Kinds(evs) == {evs[i].kind : i \in 1..Len(evs)}

\* The step is the synchronous part of a processScreenshots() invocation, and
\* the record of that invocation after it.
IsCallStep == Len(calls') = Len(calls) + 1
StartedCall == IF calls'[Len(calls')].pc # "done" THEN calls'[Len(calls')]
               ELSE returned'
RelevantQueue == IF view = "queue" THEN screenshotQueue ELSE extraScreenshotQueue
SelectedToken == IF view = "queue" THEN currentProcessingAbortController
                 ELSE currentExtraProcessingAbortController

\* C1: an invocation whose request was cancelled (the abort signal of its
\* controller was raised by cancelOngoingRequests() while it was in flight)
\* publishes no PROBLEM_EXTRACTED, INITIAL_SOLUTION_ERROR, DEBUG_SUCCESS or
\* DEBUG_ERROR event.
C1_CancelIsSilent ==
  (HasReturned /\ returned.aborted) =>
     Kinds(returned.events) \cap AllTerminalKinds = {}

\* C2: every request of an invocation is made on the adapter that was active
\* when the invocation started, whatever provider switch completes meanwhile.
C2_RequestsUseStartAdapter ==
  /\ \A c \in 1..Len(calls) : \A i \in 1..Len(calls[c].ops) :
        calls[c].ops[i].helper = calls[c].helper0
  /\ \A i \in 1..Len(returned.ops) : returned.ops[i].helper = returned.helper0

\* C3: each channel has at most one invocation awaiting an adapter call.
C3_OneRequestPerChannel ==
  \A ch \in {"primary", "debug"} :
     Cardinality({c \in 1..Len(calls) : InFlight(c) /\ Channel(c) = ch}) <= 1

\* C4: an invocation that selects (with a non-empty queue) a channel whose
\* cancellation token is present is rejected: it publishes no event, makes no
\* request and leaves the token as it is.
C4_BusyCallRejected ==
  [][(IsCallStep /\ Len(RelevantQueue) > 0 /\ SelectedToken # 0) =>
        /\ StartedCall.events = <<>>
        /\ StartedCall.ops = <<>>
        /\ UNCHANGED tokenVars]_vars

\* C5: an invocation that found its queue non-empty has published exactly its
\* start event while it awaits the adapter, and exactly the start event
\* followed by one terminal event of its channel when it has returned.
C5_StartThenOneTerminal ==
  /\ \A c \in 1..Len(calls) :
        InFlight(c) => calls[c].events = <<StartEvent(calls[c].branch)>>
  /\ (HasReturned /\ returned.branch # "none") =>
        /\ Len(returned.events) = 2
        /\ returned.events[1] = StartEvent(returned.branch)
        /\ returned.events[2].kind \in TerminalKinds(returned.branch)

C5_Witness ==
  /\ HasReturned
  /\ returned.branch = "debug"
  /\ Len(returned.ops) = 2
  /\ returned.events[2].kind = "DEBUG_ERROR"

\* C6: with the relevant queue empty, processScreenshots() publishes
\* NO_SCREENSHOTS alone, makes no request and changes nothing: view, queues,
\* problem info, hasDebugged, both tokens and every suspended invocation.
C6_EmptyQueueNoOp ==
  [][(IsCallStep /\ Len(RelevantQueue) = 0) =>
        /\ returned'.events = <<Event("NO_SCREENSHOTS", NoPayload)>>
        /\ returned'.ops = <<>>
        /\ calls' = Append(calls, DoneCall)
        /\ UNCHANGED <<appVars, tokenVars, llmHelper, adapters>>]_vars

C6_Witness ==
  /\ HasReturned
  /\ returned.events = <<Event("NO_SCREENSHOTS", NoPayload)>>
  /\ view = "solutions"
  /\ currentProcessingAbortController # 0

\* C7: the provider kind, model name, url and cloud model handle of an
\* LLMHelper object never change once it is constructed.
Config(a) == <<a.useOllama, a.ollamaModel, a.ollamaUrl, a.model>>
C7_AdaptersImmutable ==
  [][\A h \in 1..Len(adapters) : Config(adapters'[h]) = Config(adapters[h])]_vars

\* C8: a request made while the object is in Ollama mode never goes to the
\* Gemini backend.
C8_LocalNeverCallsCloud ==
  lastRequest.useOllama => lastRequest.backend # "gemini"

\* C9: in the solutions view with a non-empty debug queue and no problem info,
\* processScreenshots() publishes DEBUG_START then DEBUG_ERROR("No problem info
\* available"), makes no request, returns at once, leaves the debug token absent
\* and changes neither hasDebugged nor anything else.
C9_NoProblemInfo ==
  [][(IsCallStep /\ view = "solutions" /\ Len(extraScreenshotQueue) > 0
        /\ problemInfo = NoInfo) =>
        /\ returned'.events =
              <<Event("DEBUG_START", NoPayload),
                Event("DEBUG_ERROR", Message("No problem info available"))>>
        /\ returned'.ops = <<>>
        /\ calls' = Append(calls, DoneCall)
        /\ currentExtraProcessingAbortController' = 0
        /\ UNCHANGED <<appVars, currentProcessingAbortController,
                       llmHelper, adapters>>]_vars

C9_Witness ==
  /\ HasReturned
  /\ returned.branch = "debug"
  /\ returned.ops = <<>>
  /\ returned.events[2] = Event("DEBUG_ERROR", Message("No problem info available"))
  /\ \E c \in 1..Len(calls) : InFlight(c)

\* C10: an image invocation starts by publishing INITIAL_START and setting the
\* view to solutions; when its vision call succeeds it publishes
\* PROBLEM_EXTRACTED whose problem_statement is the text the call returned,
\* stores that payload as the problem info, and leaves the view alone.
C10_ImageExtracted ==
  [][/\ (IsCallStep /\ view = "queue" /\ Len(screenshotQueue) > 0
           /\ ~IsAudioPath(screenshotQueue[Len(screenshotQueue)])) =>
           /\ view' = "solutions"
           /\ StartedCall.events = <<Event("INITIAL_START", NoPayload)>>
     /\ (returned'.pc = "done" /\ returned'.branch = "image"
           /\ returned'.result.shape = "AnalysisResult") =>
           /\ Len(returned'.events) = 2
           /\ returned'.events[1] = Event("INITIAL_START", NoPayload)
           /\ returned'.events[2].kind = "PROBLEM_EXTRACTED"
           /\ returned'.events[2].payload.problem_statement = returned'.result.text
           /\ problemInfo' = returned'.events[2].payload
           /\ view' = view]_vars

C10_Witness ==
  /\ HasReturned
  /\ returned.branch = "image"
  /\ returned.events[2].kind = "PROBLEM_EXTRACTED"
  /\ problemInfo.problem_statement = "t2"
  /\ view = "solutions"

\* C11: an audio invocation whose analyzeAudioFile call succeeds has published
\* INITIAL_START and then PROBLEM_EXTRACTED with a problem-info payload whose
\* problem_statement is the returned text; it made no vision request, and the
\* stored problem info has that problem_statement and empty structural fields.
C11_AudioExtracted ==
  (HasReturned /\ returned.branch = "audio"
     /\ returned.result.shape = "AnalysisResult") =>
     /\ Len(returned.events) = 2
     /\ returned.events[1] = Event("INITIAL_START", NoPayload)
     /\ returned.events[2].kind = "PROBLEM_EXTRACTED"
     /\ returned.events[2].payload.shape = "ProblemInfo"
     /\ returned.events[2].payload.problem_statement = returned.result.text
     /\ \A i \in 1..Len(returned.ops) : returned.ops[i].op = "analyzeAudioFile"
     /\ problemInfo = AudioProblemInfo(returned.result.text)

\* C12: cancelOngoingRequests() raises the abort signal of each controller
\* that is present, leaves both controllers null and hasDebugged false, and
\* changes nothing else (view, problem info, queues, active adapter, events
\* and requests of the invocations); called again at once it changes nothing.
C12_CancelFrame ==
  [][CancelOngoingRequests =>
        /\ currentProcessingAbortController' = 0
        /\ currentExtraProcessingAbortController' = 0
        /\ hasDebugged' = FALSE
        /\ Len(calls') = Len(calls)
        /\ \A c \in 1..Len(calls) :
              /\ calls'[c].aborted =
                   (calls[c].aborted
                      \/ (currentProcessingAbortController = c)
                      \/ (currentExtraProcessingAbortController = c))
              /\ [calls'[c] EXCEPT !.aborted = FALSE]
                   = [calls[c] EXCEPT !.aborted = FALSE]
        /\ UNCHANGED <<view, problemInfo, screenshotQueue, extraScreenshotQueue,
                       llmHelper, adapters>>
        /\ (currentProcessingAbortController = 0
              /\ currentExtraProcessingAbortController = 0 /\ ~hasDebugged) =>
              UNCHANGED <<appVars, tokenVars, calls, llmHelper, adapters>>]_vars

C12_Witness ==
  /\ view = "solutions"
  /\ Len(screenshotQueue) > 0
  /\ currentProcessingAbortController = 0
  /\ currentExtraProcessingAbortController = 0
  /\ ~hasDebugged
  /\ \E c \in 1..Len(calls) :
        InFlight(c) /\ calls[c].branch = "debug" /\ calls[c].aborted

\* C13: a debug invocation started with problem info set first requests
\* generateSolution, alone; debugSolutionWithImages is requested only when
\* generateSolution has succeeded, with the generated code and the images
\* queued at the start. DEBUG_SUCCESS is published only after both requests,
\* carries the debug result, and hasDebugged is true in the state that
\* publishes it; a failure publishes DEBUG_ERROR and leaves hasDebugged as it
\* was, and a failure of generateSolution leaves debugSolutionWithImages
\* unrequested.
C13_DebugPipeline ==
  [][/\ (IsCallStep /\ view = "solutions" /\ Len(extraScreenshotQueue) > 0
           /\ problemInfo # NoInfo) =>
           /\ StartedCall.pc = "generate"
           /\ StartedCall.events = <<Event("DEBUG_START", NoPayload)>>
           /\ Len(StartedCall.ops) = 1
           /\ StartedCall.ops[1].op = "generateSolution"
           /\ StartedCall.info = problemInfo
           /\ StartedCall.images = extraScreenshotQueue
           /\ hasDebugged' = hasDebugged
     /\ \A c \in 1..Len(calls) :
          (calls[c].branch = "debug" /\ InFlight(c) /\ calls'[c].pc # calls[c].pc) =>
             IF calls'[c].pc = "net"
               THEN /\ calls[c].pc = "generate"
                    /\ calls'[c].result.shape = "solution"
                    /\ calls'[c].code = calls'[c].result.code
                    /\ calls'[c].images = calls[c].images
                    /\ calls'[c].info = calls[c].info
                    /\ Len(calls'[c].ops) = 2
                    /\ calls'[c].ops[1] = calls[c].ops[1]
                    /\ calls'[c].ops[2].op = "debugSolutionWithImages"
                    /\ calls'[c].events = calls[c].events
                    /\ hasDebugged' = hasDebugged
               ELSE /\ calls'[c].pc = "done"
                    /\ returned'.ops = calls[c].ops
                    /\ Len(returned'.events) = 2
                    /\ IF returned'.events[2].kind = "DEBUG_SUCCESS"
                         THEN /\ calls[c].pc = "net"
                              /\ Len(returned'.ops) = 2
                              /\ returned'.result.shape = "DebugResult"
                              /\ returned'.events[2].payload = returned'.result
                              /\ hasDebugged' = TRUE
                         ELSE /\ returned'.events[2].kind = "DEBUG_ERROR"
                              /\ returned'.events[2].payload = returned'.result
                              /\ returned'.result.shape = "message"
                              /\ hasDebugged' = hasDebugged
                              /\ calls[c].pc = "generate" => Len(returned'.ops) = 1]_vars

C13_Witness ==
  /\ HasReturned
  /\ returned.branch = "debug"
  /\ Len(returned.ops) = 2
  /\ returned.events[2].kind = "DEBUG_SUCCESS"
  /\ hasDebugged

\* C14: when the adapter call of an audio or image invocation fails, the
\* invocation publishes INITIAL_START and then INITIAL_SOLUTION_ERROR carrying
\* the failure's message; that step changes neither the view (which the start
\* of the invocation had set to solutions) nor the problem info.
C14_InitialFailure ==
  [][/\ (IsCallStep /\ view = "queue" /\ Len(screenshotQueue) > 0) =>
           view' = "solutions" /\ problemInfo' = problemInfo
     /\ (returned'.pc = "done" /\ returned'.branch \in {"audio", "image"}
           /\ returned'.result.shape = "message") =>
           /\ returned'.events =
                 <<Event("INITIAL_START", NoPayload),
                   Event("INITIAL_SOLUTION_ERROR", returned'.result)>>
           /\ view' = view
           /\ problemInfo' = problemInfo]_vars

C14_Witness ==
  /\ HasReturned
  /\ returned.branch = "audio"
  /\ returned.events[2].kind = "INITIAL_SOLUTION_ERROR"
  /\ view = "solutions"
  /\ problemInfo # NoInfo

\* C15: when an image invocation has returned the primary controller is null,
\* and when a debug invocation has returned the debug controller is null,
\* whether it succeeded, failed, or was cancelled meanwhile.
C15_TokenClearedOnReturn ==
  /\ (HasReturned /\ returned.branch = "image") =>
        currentProcessingAbortController = 0
  /\ (HasReturned /\ returned.branch = "debug") =>
        currentExtraProcessingAbortController = 0

C15_Witness ==
  /\ HasReturned
  /\ returned.branch = "debug"
  /\ returned.events[2].kind = "DEBUG_SUCCESS"
  /\ currentExtraProcessingAbortController = 0
  /\ \E c \in 1..Len(calls) : InFlight(c) /\ calls[c].branch = "debug"

\* C16: in the state in which the reset handler has sent "reset-view", both
\* queues are empty, the problem info is unset, hasDebugged is false, both
\* controllers are null and the view is queue.
C16_ResetIsFresh ==
  returned.pc = "reset" =>
     /\ returned.events = <<Event("reset-view", NoPayload)>>
     /\ screenshotQueue = <<>>
     /\ extraScreenshotQueue = <<>>
     /\ problemInfo = NoInfo
     /\ hasDebugged = FALSE
     /\ currentProcessingAbortController = 0
     /\ currentExtraProcessingAbortController = 0
     /\ view = "queue"

C16_Witness ==
  /\ returned.pc = "reset"
  /\ view = "queue"
  /\ problemInfo = NoInfo
  /\ \E c \in 1..Len(calls) : InFlight(c) /\ calls[c].branch = "debug" /\ calls[c].aborted

Contains(models, name) == \E i \in 1..Len(models) : models[i] = name
C18_FirstListedModel ==
  [][\A h \in 1..Len(adapters), l \in ModelLists :
        (InitList(h, l) /\ Len(l) > 0 /\ ~Contains(l, adapters[h].ollamaModel)) =>
           adapters'[h].ollamaModel = l[1]]_vars

C18_Witness ==
  /\ lastRequest.op = "callOllama"
  /\ adapters[lastRequest.helper].ollamaModel = "m2"
  /\ adapters[lastRequest.helper].initProbe > 0
  /\ adapters[lastRequest.helper].model = NoModel

\* C19: constructing an Ollama adapter never throws, and no failure of the
\* backend during initializeOllamaModel() (no model list, an empty list, a
\* failed probe, a failed fallback listing) rejects its promise or changes the
\* configuration of the object, which stays in Ollama mode for later calls.
C19_InitNeverFails ==
  [][\A h \in 1..Len(adapters) :
        /\ \A k \in {Undefined} \cup ApiKeys : ~ConstructThrows(k, TRUE)
        /\ ~adapters[h].initRejected
        /\ ~adapters'[h].initRejected
        /\ (InitList(h, <<>>) \/ InitProbe(h, FALSE) \/ InitFallback(h, <<>>)) =>
              Config(adapters'[h]) = Config(adapters[h])]_vars

C19_Witness ==
  \E h \in 1..Len(adapters) :
     /\ adapters[h].initFallback > 0
     /\ adapters[h].useOllama
     /\ ~adapters[h].initRejected

\* C20: testConnection() on an object in Ollama mode first sends the GET of
\* the tags endpoint and no probe prompt; the probe prompt is sent only when
\* that check answered ok; when it did not, testConnection() returns
\* {success: false, error} and sends nothing.
C20_LivenessBeforeProbe ==
  [][\A h \in 1..Len(adapters) :
        /\ (TestConnection /\ h = llmHelper /\ adapters[h].useOllama) =>
              /\ lastRequest'.op = "checkOllamaAvailable"
              /\ adapters'[h].testTags = adapters[h].testTags + 1
              /\ adapters'[h].testProbe = adapters[h].testProbe
        /\ TestTags(h, FALSE) =>
              /\ lastTest'.success = FALSE
              /\ lastTest'.error = UnavailableAt(adapters[h].ollamaUrl)
              /\ lastRequest' = lastRequest
              /\ adapters'[h].testProbe = adapters[h].testProbe
        /\ (adapters'[h].testProbe > adapters[h].testProbe) =>
              /\ TestTags(h, TRUE)
              /\ lastRequest'.op = "callOllama"]_vars

C20_Witness ==
  /\ lastTest.success = FALSE
  /\ lastTest.error = UnavailableAt("u2")
  /\ lastRequest.op = "checkOllamaAvailable"
  /\ PendingTests(adapters[llmHelper]) = 0

\* C21: every way testConnection() ends gives a {success, error} result:
\* {success: false, error: message} when the liveness check fails, when the
\* probe prompt fails, when there is no Gemini model, when Gemini answers with
\* an empty text or throws; {success: true} (without error) only when the probe
\* request was answered.
IsTestResult(r) ==
  /\ DOMAIN r = {"success", "error"}
  /\ r.success \in BOOLEAN
  /\ r.success <=> (r.error = Undefined)
C21_TestConnectionTotal ==
  [][/\ IsTestResult(lastTest')
     /\ (TestConnection /\ ~adapters[llmHelper].useOllama
           /\ adapters[llmHelper].model = NoModel) =>
           lastTest' = [success |-> FALSE, error |-> "No Gemini model configured"]
     /\ \A h \in 1..Len(adapters) :
          /\ TestTags(h, FALSE) => ~lastTest'.success
          /\ TestProbe(h, FALSE) => ~lastTest'.success
          /\ TestProbe(h, TRUE) => lastTest'.success
          /\ TestGemini(h, "text") => lastTest'.success
          /\ TestGemini(h, "empty") =>
                lastTest' = [success |-> FALSE, error |-> "Empty response from Gemini"]
          /\ TestGemini(h, "error") => ~lastTest'.success
          /\ (lastTest' # lastTest /\ lastTest'.success) =>
                (TestProbe(h, TRUE) \/ TestGemini(h, "text")
                   \/ adapters'[h] = adapters[h])]_vars

C21_Witness ==
  /\ lastTest = [success |-> FALSE, error |-> "Failed to connect to Ollama"]
  /\ lastRequest.op = "callOllama"
  /\ PendingTests(adapters[llmHelper]) = 0

\* C22: within one invocation no adapter operation is requested twice, and an
\* invocation whose adapter operation failed has returned normally with
\* exactly one error event, the last one it published, carrying the failure.
ErrorKinds == {"INITIAL_SOLUTION_ERROR", "DEBUG_ERROR"}
NoRepeat(ops) ==
  \A i, j \in 1..Len(ops) : ops[i].op = ops[j].op => i = j
C22_NoRetryOneError ==
  /\ \A c \in 1..Len(calls) :
        /\ NoRepeat(calls[c].ops)
        /\ InFlight(c) => Kinds(calls[c].events) \cap ErrorKinds = {}
  /\ HasReturned => NoRepeat(returned.ops)
  /\ (HasReturned /\ returned.result.shape = "message") =>
        /\ Cardinality({i \in 1..Len(returned.events) :
                          returned.events[i].kind \in ErrorKinds}) = 1
        /\ returned.events[Len(returned.events)] =
              Event(IF returned.branch = "debug" THEN "DEBUG_ERROR"
                    ELSE "INITIAL_SOLUTION_ERROR", returned.result)

C22_Witness ==
  /\ HasReturned
  /\ returned.branch = "debug"
  /\ Len(returned.ops) = 1
  /\ returned.ops[1].backend = "gemini"
  /\ returned.result = Message("fetch failed")

\* C23: when the backend's text is a well-formed JSON document, bare or
\* wrapped in a markdown code fence, generateSolution returns the parsed
\* object, so that {"solution":{"code":"print(1)"}} gives the code "print(1)";
\* when the text is not well-formed JSON the call fails and no solution is
\* returned.
WrappedForms(doc) ==
  {<<doc>>, Fenced(doc), FencedPlain(doc), FencedNewline(doc)}
C23_GenerateSolutionParses ==
  [][\A c \in 1..Len(calls) :
        /\ \A t \in WrappedForms(DocPrint) :
              GenerateResolves(c, t) =>
                 /\ calls'[c].pc = "net"
                 /\ calls'[c].result = SolutionJson("print(1)")
                 /\ calls'[c].code = "print(1)"
        /\ GenerateResolves(c, <<DocTruncated>>) =>
              /\ calls'[c].pc = "done"
              /\ returned'.result.shape = "message"
              /\ Len(returned'.ops) = 1]_vars

\* C24: listing the models on an adapter in Gemini mode answers the empty list
\* and makes no request; on an adapter in Ollama mode it asks the local
\* backend, and answers the names of the listed models in the backend's order.
C24_ListModels ==
  [][/\ \A u \in {Undefined} \cup Urls :
          GetAvailableOllamaModelsIpc(u) =>
             IF ~IsLLMHelperReady
               THEN /\ lastRequest'.op = "getOllamaModels"
                    /\ lastRequest'.backend = "ollama"
                    /\ lastRequest'.helper = Len(adapters')
                    /\ adapters'[Len(adapters')].useOllama
             ELSE IF adapters[llmHelper].useOllama
               THEN /\ lastRequest'.op = "getOllamaModels"
                    /\ lastRequest'.backend = "ollama"
                    /\ lastRequest'.helper = llmHelper
               ELSE /\ lastReply'.cmd = "get-available-ollama-models"
                    /\ lastReply'.value = <<>>
                    /\ lastRequest' = lastRequest
                    /\ adapters' = adapters
     /\ \A h \in 1..Len(adapters), l \in ModelLists :
          ListTags(h, [ok |-> TRUE, hasModels |-> TRUE,
                       models |-> [i \in 1..Len(l) |-> [name |-> l[i], size |-> i]]])
            => /\ lastReply'.cmd = "get-available-ollama-models"
               /\ lastReply'.value = l]_vars
C24_Witness ==
  /\ lastReply.cmd = "get-available-ollama-models"
  /\ lastReply.value = <<"m2", "m1">>
  /\ IsLLMHelperReady
  /\ adapters[llmHelper].useOllama
  /\ lastRequest.op = "getOllamaModels"
  /\ lastRequest.helper = llmHelper

\* C25: while no adapter is installed, the four analysis commands throw the
\* configuration error and make no request, test-llm-connection answers
\* {success: false, error} and get-current-llm-config answers the default
\* configuration; none of them touches an adapter.
C25_NotReadyCommands ==
  [][~IsLLMHelperReady =>
       /\ \A cmd \in AnalysisCommands :
            AnalyzeIpc(cmd) =>
               /\ lastReply' = Reply(cmd, "error", NotConfigured)
               /\ lastRequest' = lastRequest
               /\ adapters' = adapters
       /\ TestLlmConnectionIpc =>
            /\ lastReply'.cmd = "test-llm-connection"
            /\ lastReply'.kind = "value"
            /\ lastReply'.value.success = FALSE
            /\ lastReply'.value.error = NotConfigured
            /\ lastRequest' = lastRequest
            /\ adapters' = adapters
       /\ GetCurrentLlmConfigIpc =>
            /\ lastReply'.cmd = "get-current-llm-config"
            /\ lastReply'.kind = "value"
            /\ lastReply'.value = [provider |-> "gemini", model |-> "Not configured",
                                   isOllama |-> FALSE]
            /\ lastRequest' = lastRequest
            /\ adapters' = adapters]_vars
C25_Witness ==
  /\ ~IsLLMHelperReady
  /\ lastReply.cmd = "gemini-chat"
  /\ lastReply.kind = "error"
  /\ lastRequest = NoRequest
  /\ adapters = <<>>

\* C26: a processScreenshots() invocation that is awaiting an adapter call
\* which never answers, and whose controller has been aborted by
\* cancelOngoingRequests(), eventually returns.
C26_CancelEndsStalledCall ==
  \A c \in CallIds :
     (c <= Len(calls) /\ InFlight(c) /\ calls[c].aborted)
        ~> (c <= Len(calls) /\ ~InFlight(c))

\* C27: in queue view with a non-empty primary queue, processScreenshots()
\* works on the last path of the queue and on nothing else: it makes one
\* request, analyzeAudioFile on that path if and only if the path ends in
\* ".mp3" or ".wav", and analyzeImageFile on that path otherwise.
Suffix(p, n) == IF Len(p) < n THEN p ELSE SubSeq(p, Len(p) - n + 1, Len(p))
AudioSuffixes == {<<".", "m", "p", "3">>, <<".", "w", "a", "v">>}
C27_PipelineByLastItem ==
  [][(IsCallStep /\ view = "queue" /\ Len(screenshotQueue) > 0) =>
        LET last == screenshotQueue[Len(screenshotQueue)]
            call == calls'[Len(calls')]
        IN /\ call.path = last
           /\ call.images = <<>>
           /\ Len(call.ops) = 1
           /\ call.branch = IF Suffix(last, 4) \in AudioSuffixes
                              THEN "audio" ELSE "image"
           /\ call.ops[1].op = IF Suffix(last, 4) \in AudioSuffixes
                                 THEN "analyzeAudioFile" ELSE "analyzeImageFile"
           /\ screenshotQueue' = screenshotQueue]_vars
C27_Witness ==
  /\ screenshotQueue = <<ImgPng, ClipMp3>>
  /\ Len(calls) = 1
  /\ calls[1].branch = "audio"
  /\ calls[1].path = ClipMp3
  /\ calls[1].ops[1].op = "analyzeAudioFile"

\* C28: the decision of processScreenshots() is one step: from queue view with
\* a non-empty queue the same step publishes INITIAL_START, sets the view to
\* solutions and (image branch) opens the primary token; so when invocations
\* follow one another without a reset, an invocation that starts the primary
\* pipeline finds no earlier primary invocation in flight, and an invocation
\* issued after it sees the solutions view and works on the debug queue.
PrimaryBranches == {"audio", "image"}
C28_AtomicDecision ==
  [][IsCallStep =>
       IF view = "queue" /\ Len(screenshotQueue) > 0
         THEN /\ view' = "solutions"
              /\ StartedCall.branch \in PrimaryBranches
              /\ StartedCall.events = <<Event("INITIAL_START", NoPayload)>>
              /\ StartedCall.branch = "image" =>
                    currentProcessingAbortController' = Len(calls')
              /\ \A c \in 1..Len(calls) : calls[c].branch \notin PrimaryBranches
         ELSE /\ StartedCall.branch \notin PrimaryBranches
              /\ view' = view
              /\ currentProcessingAbortController' = currentProcessingAbortController]_vars
C28_Witness ==
  /\ Len(calls) = 2
  /\ calls[1].branch = "image" /\ InFlight(1)
  /\ Len(screenshotQueue) > 0
  /\ HasReturned
  /\ returned.branch = "debug"
  /\ currentProcessingAbortController = 1

\* C29: a step of a primary invocation (its start, its success, its failure)
\* leaves the debug token as it is, and a step of a debug invocation leaves
\* the primary token as it is; the two kinds of invocation can be in flight
\* together.
PrimaryStep ==
  \/ IsCallStep /\ StartedCall.branch \in PrimaryBranches
  \/ \E c \in 1..Len(calls) :
        /\ calls[c].branch \in PrimaryBranches
        /\ Len(calls') = Len(calls) /\ calls'[c].pc # calls[c].pc
DebugStep ==
  \/ IsCallStep /\ StartedCall.branch = "debug"
  \/ \E c \in 1..Len(calls) :
        /\ calls[c].branch = "debug"
        /\ Len(calls') = Len(calls) /\ calls'[c].pc # calls[c].pc
C29_ChannelsIndependent ==
  [][/\ currentExtraProcessingAbortController'
           # currentExtraProcessingAbortController => ~PrimaryStep
     /\ currentProcessingAbortController'
           # currentProcessingAbortController => ~DebugStep]_vars
C29_Witness ==
  /\ \E c \in 1..Len(calls) :
        /\ InFlight(c) /\ calls[c].branch = "image"
        /\ currentProcessingAbortController = c
  /\ \E d \in 1..Len(calls) :
        /\ InFlight(d) /\ calls[d].branch = "debug"
        /\ currentExtraProcessingAbortController = d

\* C30: every request processScreenshots() makes on an adapter in Ollama mode
\* goes to the local backend.
C30_ServedByActiveVariant ==
  \A c \in 1..Len(calls) : \A i \in 1..Len(calls[c].ops) :
     calls[c].ops[i].useOllama => calls[c].ops[i].backend = "ollama"

\* C31: the code handed to debugSolutionWithImages is never empty and never
\* undefined: generateSolution rejects an answer without the solution key or
\* with an empty solution.code.
C31_SolutionCodeNonEmpty ==
  \A c \in 1..Len(calls) :
     (calls[c].branch = "debug" /\ Len(calls[c].ops) = 2
        /\ calls[c].ops[2].op = "debugSolutionWithImages") =>
        /\ calls[c].code # ""
        /\ calls[c].code # Undefined

\* C32: as long as cancelOngoingRequests() is not called, an image invocation
\* that is awaiting the adapter finds the primary token present and a debug
\* invocation that is awaiting the adapter finds the debug token present.
C32_TokenPresentWhileInFlight ==
  \A c \in 1..Len(calls) :
     /\ (InFlight(c) /\ calls[c].branch = "image") =>
           currentProcessingAbortController # 0
     /\ (InFlight(c) /\ calls[c].branch = "debug") =>
           currentExtraProcessingAbortController # 0

\* C33: when the adapter call of an invocation whose controller was aborted
\* (by cancelOngoingRequests() or by the reset shortcut) completes, the
\* problem info and hasDebugged stay as they are.
C33_CancelledCallChangesNothing ==
  [][\A c \in 1..Len(calls) :
        (calls[c].aborted /\ Len(calls') = Len(calls)
           /\ calls'[c].pc # calls[c].pc) =>
           UNCHANGED <<problemInfo, hasDebugged>>]_vars

\* C34: every operation of a debug invocation is given the problem info the
\* invocation read when it started, whatever has happened to the stored
\* problem info since.
C34_OneSnapshot ==
  \A c \in 1..Len(calls) :
     (InFlight(c) /\ calls[c].branch = "debug") =>
        /\ Len(calls[c].sent) = Len(calls[c].ops)
        /\ \A i \in 1..Len(calls[c].sent) :
              /\ calls[c].sent[i].shape = "ProblemInfo"
              /\ calls[c].sent[i] = calls[c].sent[1]
C34_Witness ==
  \E c \in 1..Len(calls) :
     /\ InFlight(c) /\ calls[c].branch = "debug"
     /\ Len(calls[c].sent) = 2
     /\ calls[c].ops[2].op = "debugSolutionWithImages"
     /\ calls[c].sent[2].problem_statement = "t1"
     /\ problemInfo.shape = "ProblemInfo"
     /\ problemInfo.problem_statement = "t2"

\* C35: the view changes from queue to solutions only in the step in which
\* processScreenshots() starts on a non-empty primary queue, and from
\* solutions to queue only in the reset handler; no other step changes it.
C35_ViewChanges ==
  [][view' # view =>
       \/ /\ view = "queue" /\ view' = "solutions"
          /\ IsCallStep
          /\ Len(screenshotQueue) > 0
          /\ StartedCall.branch \in {"audio", "image"}
       \/ /\ view = "solutions" /\ view' = "queue"
          /\ returned' = ResetDone
          /\ calls' = [c \in 1..Len(calls) |->
                         [calls[c] EXCEPT !.aborted = calls'[c].aborted]]]_vars
C35_Witness ==
  /\ view = "solutions"
  /\ HasReturned
  /\ returned.branch = "image"
  /\ returned.events[2].kind = "INITIAL_SOLUTION_ERROR"
  /\ Len(calls) = 3
  /\ \E c \in 1..Len(calls) : InFlight(c) /\ calls[c].branch = "debug"

\* C36: when every awaited adapter operation settles, every invocation that
\* is in flight (it has published its start event and is awaiting the
\* adapter) eventually returns and is in flight no more.
C36_EveryCallReturns ==
  \A c \in CallIds :
     (c <= Len(calls) /\ InFlight(c)) ~> (c <= Len(calls) /\ ~InFlight(c))
C36_Witness ==
  /\ HasReturned
  /\ returned.branch = "debug"
  /\ Len(returned.ops) = 2
  /\ returned.events[2].kind = "DEBUG_ERROR"
  /\ Len(calls) = MaxCalls
  /\ \A c \in 1..Len(calls) : ~InFlight(c)

\* C37: no step of initializeOllamaModel() replaces a configured model that
\* the backend lists: neither the arrival of the model list, nor the outcome
\* of the probe, nor the fallback after a failed probe.
C37_KeepsOfferedModel ==
  [][\A h \in 1..Len(adapters) :
        /\ \A l \in ModelLists :
              ((InitList(h, l) \/ InitFallback(h, l))
                 /\ Contains(l, adapters[h].ollamaModel)) =>
                 adapters'[h].ollamaModel = adapters[h].ollamaModel
        /\ \A ok \in BOOLEAN :
              InitProbe(h, ok) =>
                 adapters'[h].ollamaModel = adapters[h].ollamaModel]_vars

\* C38: from the return of switchToOllama(m) with a model m until the next
\* switch of the object, getCurrentModel() answers m.
C38_ExplicitModelStable ==
  \A h \in 1..Len(adapters) :
     adapters[h].chosen # Undefined =>
        GetCurrentModel(adapters[h]) = adapters[h].chosen

\* C39: the provider of every object is "ollama" or "gemini", an object whose
\* provider is "gemini" has a cloud model handle, and switchToGemini() without
\* a key on an object without a handle changes nothing.
C39_ProviderBacked ==
  [][/\ \A h \in 1..Len(adapters') :
          /\ GetCurrentProvider(adapters'[h]) \in {"ollama", "gemini"}
          /\ GetCurrentProvider(adapters'[h]) = "gemini" =>
                adapters'[h].model # NoModel
     /\ (SwitchToGemini(Undefined) /\ adapters[llmHelper].model = NoModel) =>
          adapters' = adapters]_vars
C39_Witness ==
  \E h \in 1..Len(adapters) :
     /\ GetCurrentProvider(adapters[h]) = "gemini"
     /\ adapters[h].model = "k1"
     /\ adapters[h].ollamaModel = "m1"
     /\ adapters[h].ollamaUrl = "u2"

====
